---- MODULE Spec2Model ----
(***************************************************************************)
(* Model of espflash's Esp32Target flash-target driver                     *)
(* (src/espflash/src/targets/flash_target/esp32.rs): the three operations  *)
(* begin, write_segment and finish, the Connection they drive, the zlib    *)
(* codec write_segment streams through, and the caller that invokes them.  *)
(*                                                                         *)
(* Every event the driver causes outside itself (a wire command, the USB   *)
(* PID query, a progress callback, a reset) is appended to `trace`, in     *)
(* program order, for the call in progress.                                *)
(***************************************************************************)
EXTENDS Integers, Sequences, FiniteSets, TLC

(* ------------------------------ bounds --------------------------------- *)
\* longest segment.data the caller passes
MaxLen == 3
\* largest flash_write_size the chip capability provider answers
MaxWrite == 3
\* number of calls the caller makes on one driver
MaxCalls == 2
\* how far around 0 and around 2^32 the sector counts of SpecErase range
EraseSpan == 2

(* ------------------------- program constants --------------------------- *)
\* flasher::FLASH_SECTOR_SIZE
FLASH_SECTOR_SIZE == 4096
\* connection::USB_SERIAL_JTAG_PID
USB_SERIAL_JTAG_PID == 4097
\* the PIDs Connection::get_usb_pid answers: the USB-Serial-JTAG peripheral
\* and one USB-UART bridge
UsbPids == {USB_SERIAL_JTAG_PID, 60000}
\* width of the `as u32` casts
U32Bits == 32

\* the byte values segment.data is drawn from
ByteVals == {0, 1}
\* segment.addr values the caller passes
Addrs == {4096}
\* the SpiAttachParams the driver is constructed with (an opaque payload)
SpiParams == {0}

Chip == {"Esp32", "Esp32c3", "Esp32s2", "Esp32s3"}
\* what a Connection call can fail with
ErrorKinds == {"Timeout", "Connection"}
Results == {"ok"} \cup ErrorKinds

(* ------------------------------ helpers -------------------------------- *)
RECURSIVE Replicate(_, _)
Replicate(b, n) == IF n = 0 THEN <<>> ELSE <<b>> \o Replicate(b, n - 1)

RECURSIVE SumSeq(_)
SumSeq(s) == IF s = <<>> THEN 0 ELSE Head(s) + SumSeq(Tail(s))

RECURSIVE Concat(_)
Concat(ss) == IF ss = <<>> THEN <<>> ELSE Head(ss) \o Concat(Tail(ss))

\* all sequences over S of length 0..n
SeqsUpTo(S, n) == UNION {[1..k -> S] : k \in 0..n}

(* ------------------------- the zlib codec ------------------------------ *)
(* The codec is an external library.  It is modelled as a deflate-like    *)
(* stream: a header byte, one <<count, byte>> token per maximal run of     *)
(* equal bytes, an end-of-stream token <<0>>, and a one-byte checksum of  *)
(* the uncompressed data.  Like zlib it never produces an empty stream,   *)
(* expands short inputs and shrinks long runs.                             *)
ZLIB_HEADER == 120

Checksum(data) == (1 + SumSeq(data) + Len(data)) % 251

\* length of the run of equal bytes data starts with
RECURSIVE RunLen(_)
RunLen(data) ==
    IF Len(data) <= 1 THEN Len(data)
    ELSE IF data[2] = data[1] THEN 1 + RunLen(Tail(data)) ELSE 1

RECURSIVE Tokens(_)
Tokens(data) ==
    IF data = <<>> THEN <<>>
    ELSE LET n == RunLen(data)
         IN  <<n, data[1]>> \o Tokens(SubSeq(data, n + 1, Len(data)))

\* ZlibEncoder::new(..); write_all(&segment.data); finish()
Compress(data) == <<ZLIB_HEADER>> \o Tokens(data) \o <<0, Checksum(data)>>

\* ZlibDecoder::new(Vec::new())
DecoderNew == [phase |-> "header", count |-> 0, out |-> <<>>, err |-> FALSE]

\* the decoder consuming one input byte
DecodeByte(d, b) ==
    IF d.err THEN d
    ELSE CASE d.phase = "header" ->
                IF b = ZLIB_HEADER THEN [d EXCEPT !.phase = "count"]
                ELSE [d EXCEPT !.err = TRUE]
           [] d.phase = "count" ->
                IF b = 0 THEN [d EXCEPT !.phase = "trailer"]
                ELSE [d EXCEPT !.phase = "byte", !.count = b]
           [] d.phase = "byte" ->
                [d EXCEPT !.phase = "count", !.count = 0,
                          !.out = d.out \o Replicate(b, d.count)]
           [] d.phase = "trailer" ->
                IF b = Checksum(d.out) THEN [d EXCEPT !.phase = "done"]
                ELSE [d EXCEPT !.err = TRUE]
           [] OTHER -> [d EXCEPT !.err = TRUE]

\* decoder.write_all(block); decoder.flush(): everything the input so far
\* determines is in the output buffer afterwards
RECURSIVE DecoderWrite(_, _)
DecoderWrite(d, block) ==
    IF block = <<>> THEN d
    ELSE DecoderWrite(DecodeByte(d, Head(block)), Tail(block))

(* --------------------- sizes wider than an Int ------------------------- *)
(* A usize or u32 quantity of bytes is kept as [hi, lo] standing for       *)
(* hi * FLASH_SECTOR_SIZE + lo with 0 <= lo < FLASH_SECTOR_SIZE, so that   *)
(* values up to and beyond 2^32 are exact.                                 *)
Wide(n) == [hi |-> n \div FLASH_SECTOR_SIZE, lo |-> n % FLASH_SECTOR_SIZE]

WideGeq(a, b) == a.hi > b.hi \/ (a.hi = b.hi /\ a.lo >= b.lo)

\* 2^32 / FLASH_SECTOR_SIZE
U32Sectors == (2 ^ (U32Bits - 2) \div FLASH_SECTOR_SIZE) * 4

\* `x as u32` of a usize: the low 32 bits
AsU32(w) == [hi |-> w.hi % U32Sectors, lo |-> w.lo]

\* segment.data.len()
DataLen(data) == Wide(Len(data))

(* ------------------- write_segment's computations ---------------------- *)
\* (mutant) the division not rounded up
BlockCount_Floor(clen, fws) == clen \div fws

\* (compressed.len() + flash_write_size - 1) / flash_write_size
BlockCount(clen, fws) == (clen + fws - 1) \div fws

\* (segment.data.len() + FLASH_SECTOR_SIZE - 1) / FLASH_SECTOR_SIZE
EraseCount(len) == len.hi + ((len.lo + FLASH_SECTOR_SIZE - 1) \div FLASH_SECTOR_SIZE)

\* (erase_count * FLASH_SECTOR_SIZE) as u32
EraseSize(len) == AsU32([hi |-> EraseCount(len), lo |-> 0])

\* (mutant) the stub loader not taken into account
SupportsEncryption_IgnoresStub(c, stub) == c # "Esp32"

\* self.chip != Chip::Esp32 && !self.use_stub
SupportsEncryption(c, stub) == c # "Esp32" /\ ~stub

\* slice::Chunks: ExactSizeIterator::len()
ChunksLen(v, size) ==
    IF v = <<>> THEN 0
    ELSE (Len(v) \div size) + (IF Len(v) % size > 0 THEN 1 ELSE 0)

\* slice::Chunks::next(): the block it yields
ChunksNext(v, size) ==
    LET chunksz == IF Len(v) < size THEN Len(v) ELSE size
    IN  SubSeq(v, 1, chunksz)

\* (mutant) an iterator that steps over two blocks at a time
ChunksRest_SkipsOne(v, size) == SubSeq(v, 2 * size + 1, Len(v))

\* slice::Chunks::next(): the slice left to the iterator
ChunksRest(v, size) ==
    LET chunksz == IF Len(v) < size THEN Len(v) ELSE size
    IN  SubSeq(v, chunksz + 1, Len(v))

\* (mutant) the decoder's cumulative output length taken as the chunk's
Contribution_Cumulative(total, before) == total

\* let size = decoder.get_ref().len() - decoded_size
Contribution(total, before) == total - before

\* (mutant) sequence numbers counted from 1
Sequence_FromOne(idx) == idx + 1

\* `sequence: i as u32` of the FlashDeflateData command
Sequence(idx) == idx

\* (mutant) the callback told the index of the chunk, not the count sent
ProgressArgs_Index(idx, n) == <<idx, n>>

\* cb(i + 1, num_chunks)
ProgressArgs(idx, n) == <<idx + 1, n>>

\* (mutant) the Result of a Connection call dropped
IsErr_Ignored(r) == FALSE

\* the `?` after a Connection call: an Err returns from the operation
IsErr(r) == r # "ok"

(* ------------------------- begin's decisions --------------------------- *)
\* (mutant) the ROM variant of the command sent whatever use_stub is
AttachCommand_AlwaysRom(stub) == "SpiAttach"

\* if self.use_stub { Command::SpiAttachStub } else { Command::SpiAttach }
AttachCommand(stub) == IF stub THEN "SpiAttachStub" ELSE "SpiAttach"

\* (mutant) the link class not looked at
UsbSerialJtag_Any(pid) == TRUE

\* connection.get_usb_pid()? == USB_SERIAL_JTAG_PID
UsbSerialJtag(pid) == pid = USB_SERIAL_JTAG_PID

(* ----------------------- begin's register table ------------------------ *)
\* the key that unlocks the RTC watchdog's write-protect register
WDT_WKEY == 1356348065

\* (mutant) the write-protect register re-locked before the watchdog is
\* turned off, and the sequence also run on the Esp32s2
WdtWrites_Reordered(c) ==
    CASE c = "Esp32c3" ->
           << [address |-> 1610645672, value |-> WDT_WKEY, mask |-> "None"],
              [address |-> 1610645672, value |-> 0, mask |-> "None"],
              [address |-> 1610645648, value |-> 0, mask |-> "None"] >>
      [] c \in {"Esp32s2", "Esp32s3"} ->
           << [address |-> 1610645680, value |-> WDT_WKEY, mask |-> "None"],
              [address |-> 1610645680, value |-> 0, mask |-> "None"],
              [address |-> 1610645656, value |-> 0, mask |-> "None"] >>
      [] OTHER -> <<>>

\* the WriteReg commands of `match self.chip`
WdtWrites(c) ==
    CASE c = "Esp32c3" ->
           << [address |-> 1610645672, value |-> WDT_WKEY, mask |-> "None"],
              [address |-> 1610645648, value |-> 0, mask |-> "None"],
              [address |-> 1610645672, value |-> 0, mask |-> "None"] >>
      [] c = "Esp32s3" ->
           << [address |-> 1610645680, value |-> WDT_WKEY, mask |-> "None"],
              [address |-> 1610645656, value |-> 0, mask |-> "None"],
              [address |-> 1610645680, value |-> 0, mask |-> "None"] >>
      [] OTHER -> <<>>

(* ------------------------- finish's decisions -------------------------- *)
\* (mutant) the caller's reboot request forwarded on the wire
WireReboot_Forwarded(reboot_arg) == reboot_arg

\* Command::FlashDeflateEnd { reboot: false }
WireReboot(reboot_arg) == FALSE

\* if reboot { connection.reset()?; }
ShouldReset(reboot_arg) == reboot_arg

(* ------------------------------- state --------------------------------- *)
VARIABLES
    chip, spi_attach_params, use_stub,  \* the Esp32Target's fields
    codec_truncates,    \* environment: the encoder returns an unfinished stream
    pc,                 \* position of the call in progress, "idle" between calls
    op,                 \* the operation called last
    result,             \* what the last call returned: "ok" or an error kind
    ncalls,             \* calls made so far
    prev_ok,            \* no call was made before this one, or it returned Ok
    trace,              \* events of the call in progress / last call, in order
    j,                  \* begin: index of the next WriteReg of the sequence
    reboot,             \* finish: the caller's reboot argument
    segment, has_cb,    \* write_segment: its arguments
    seg_len,            \* segment.data.len()
    compressed, flash_write_size, block_count, erase_size,
    rest,               \* write_segment: what the chunks iterator still holds
    num_chunks, decoder, decoded_size, i

fields == <<chip, spi_attach_params, use_stub>>
ws_locals == <<segment, has_cb, compressed, flash_write_size,
               block_count, erase_size, rest, num_chunks, decoder,
               decoded_size, i>>
vars == <<chip, spi_attach_params, use_stub, codec_truncates, pc, op, result,
          ncalls, prev_ok, trace, j, reboot, segment, has_cb, seg_len, compressed,
          flash_write_size, block_count, erase_size, rest, num_chunks,
          decoder, decoded_size, i>>

NoSegment == [addr |-> 0, data |-> <<>>]

\* the locals of a call that has not run
LocalsInit ==
    /\ j = 0
    /\ reboot = FALSE
    /\ segment = NoSegment
    /\ has_cb = FALSE
    /\ compressed = <<>>
    /\ flash_write_size = 0
    /\ block_count = 0
    /\ erase_size = Wide(0)
    /\ rest = <<>>
    /\ num_chunks = 0
    /\ decoder = DecoderNew
    /\ decoded_size = 0
    /\ i = 0

\* Esp32Target::new
New ==
    /\ chip \in Chip
    /\ spi_attach_params \in SpiParams
    /\ use_stub \in BOOLEAN
    /\ op = "none"
    /\ result = "none"
    /\ ncalls = 0
    /\ prev_ok = TRUE
    /\ trace = <<>>
    /\ LocalsInit

Init == New /\ pc = "idle" /\ seg_len = Wide(0) /\ codec_truncates = FALSE

(* ------------------------------ events --------------------------------- *)
\* (mutant) the command issued without its with_timeout wrapper
Cmd_Unscoped(name, args, scoped, sized, tsize, res) ==
    [kind |-> "cmd", name |-> name, args |-> args, scoped |-> FALSE,
     sized |-> sized, tsize |-> tsize, res |-> res]

\* connection.command(..): inside connection.with_timeout(..) when scoped,
\* the timeout computed by timeout_for_size(tsize) when sized and by
\* timeout() otherwise
Cmd(name, args, scoped, sized, tsize, res) ==
    [kind |-> "cmd", name |-> name, args |-> args, scoped |-> scoped,
     sized |-> sized, tsize |-> tsize, res |-> res]

\* connection.get_usb_pid(): res is "ok" with the PID answered, or an error
PidQuery(res, pid) ==
    [kind |-> "usb_pid", name |-> "get_usb_pid", args |-> pid,
     scoped |-> FALSE, sized |-> FALSE, tsize |-> Wide(0), res |-> res]

\* connection.reset()
ResetEv(res) ==
    [kind |-> "reset", name |-> "reset", args |-> <<>>, scoped |-> FALSE,
     sized |-> FALSE, tsize |-> Wide(0), res |-> res]

\* target.flash_write_size(connection): res is "ok" with the size answered,
\* or an error
FwsQuery(res, fws) ==
    [kind |-> "flash_write_size", name |-> "flash_write_size", args |-> fws,
     scoped |-> FALSE, sized |-> FALSE, tsize |-> Wide(0), res |-> res]

\* cb(i + 1, num_chunks)
CbEv(args) ==
    [kind |-> "cb", name |-> "progress_cb", args |-> args, scoped |-> FALSE,
     sized |-> FALSE, tsize |-> Wide(0), res |-> "ok"]

\* the call in progress returns r
Return(r) == pc' = "idle" /\ result' = r

\* (mutant) a phase guard: write_segment and finish refused unless the call
\* before was begin or write_segment
Enter_Guarded(o, at) ==
    /\ pc = "idle"
    /\ ncalls < MaxCalls
    /\ ncalls' = ncalls + 1
    /\ prev_ok' = (op = "none" \/ result = "ok")
    /\ op' = o
    /\ trace' = <<>>
    /\ IF o = "begin" \/ op \in {"begin", "write_segment"}
         THEN pc' = at /\ result' = "none"
         ELSE pc' = "idle" /\ result' = "InvalidSessionState"

\* a call starts
Enter(o, at) ==
    /\ pc = "idle"
    /\ ncalls < MaxCalls
    /\ ncalls' = ncalls + 1
    /\ prev_ok' = (op = "none" \/ result = "ok")
    /\ op' = o
    /\ pc' = at
    /\ result' = "none"
    /\ trace' = <<>>

\* the locals of write_segment, not live outside it
NoWriteSegment ==
    /\ segment' = NoSegment
    /\ has_cb' = FALSE
    /\ seg_len' = Wide(0)
    /\ compressed' = <<>>
    /\ flash_write_size' = 0
    /\ block_count' = 0
    /\ erase_size' = Wide(0)
    /\ rest' = <<>>
    /\ num_chunks' = 0
    /\ decoder' = DecoderNew
    /\ decoded_size' = 0
    /\ i' = 0

(* ------------------------------- begin --------------------------------- *)
CallBegin ==
    /\ Enter("begin", "spi_attach")
    /\ j' = 0
    /\ reboot' = FALSE
    /\ NoWriteSegment
    /\ UNCHANGED <<fields, codec_truncates>>

\* connection.with_timeout(SpiAttach.timeout(), |c| c.command(SpiAttach..))?
SpiAttach ==
    /\ pc = "spi_attach"
    /\ \E r \in Results :
         /\ trace' = Append(trace,
                Cmd(AttachCommand(use_stub),
                    [spi_params |-> spi_attach_params], TRUE, FALSE, Wide(0), r))
         /\ IF IsErr(r)
              THEN Return(r)
              ELSE pc' = "usb_pid" /\ UNCHANGED result
    /\ UNCHANGED <<fields, codec_truncates, prev_ok, seg_len, op, ncalls, j, reboot, ws_locals>>

\* if connection.get_usb_pid()? == USB_SERIAL_JTAG_PID { match self.chip .. }
GetUsbPid ==
    /\ pc = "usb_pid"
    /\ \E r \in Results, pid \in UsbPids :
         /\ trace' = Append(trace, PidQuery(r, IF IsErr(r) THEN 0 ELSE pid))
         /\ IF IsErr(r)
              THEN Return(r) /\ UNCHANGED j
              ELSE IF UsbSerialJtag(pid) /\ WdtWrites(chip) # <<>>
                     THEN pc' = "write_reg" /\ j' = 1 /\ UNCHANGED result
                     ELSE Return("ok") /\ UNCHANGED j
    /\ UNCHANGED <<fields, codec_truncates, prev_ok, seg_len, op, ncalls, reboot, ws_locals>>

\* connection.command(Command::WriteReg { .. })?
WriteReg ==
    /\ pc = "write_reg"
    /\ \E r \in Results :
         /\ trace' = Append(trace,
                Cmd("WriteReg", WdtWrites(chip)[j], FALSE, FALSE, Wide(0), r))
         /\ IF IsErr(r)
              THEN Return(r) /\ UNCHANGED j
              ELSE IF j = Len(WdtWrites(chip))
                     THEN Return("ok") /\ UNCHANGED j
                     ELSE j' = j + 1 /\ UNCHANGED <<pc, result>>
    /\ UNCHANGED <<fields, codec_truncates, prev_ok, seg_len, op, ncalls, reboot, ws_locals>>

(* ------------------------------- finish -------------------------------- *)
CallFinish ==
    /\ Enter("finish", "deflate_end")
    /\ reboot' \in BOOLEAN
    /\ j' = 0
    /\ NoWriteSegment
    /\ UNCHANGED <<fields, codec_truncates>>

\* connection.with_timeout(FlashDeflateEnd.timeout(), |c| c.command(..))?
FlashDeflateEnd ==
    /\ pc = "deflate_end"
    /\ \E r \in Results :
         /\ trace' = Append(trace,
                Cmd("FlashDeflateEnd", [reboot |-> WireReboot(reboot)],
                    TRUE, FALSE, Wide(0), r))
         /\ IF IsErr(r)
              THEN Return(r)
              ELSE IF ShouldReset(reboot)
                     THEN pc' = "reset" /\ UNCHANGED result
                     ELSE Return("ok")
    /\ UNCHANGED <<fields, codec_truncates, prev_ok, seg_len, op, ncalls, j, reboot, ws_locals>>

\* connection.reset()?
Reset ==
    /\ pc = "reset"
    /\ \E r \in Results :
         /\ trace' = Append(trace, ResetEv(r))
         /\ Return(r)
    /\ UNCHANGED <<fields, codec_truncates, prev_ok, seg_len, op, ncalls, j, reboot, ws_locals>>

(* ---------------------------- write_segment ---------------------------- *)
\* (mutant) a compressed buffer kept by the driver from the segment before
Encode_Reused(data, truncates) ==
    IF compressed # <<>> THEN compressed ELSE Compress(data)

\* the stream encoder.finish() returns; an unfinished one lacks its last
\* token, the end-of-stream token and the checksum
Encode(data, truncates) ==
    LET c == Compress(data)
    IN  IF truncates /\ Len(c) > 4 THEN SubSeq(c, 1, Len(c) - 4) ELSE c

\* the segments the caller passes
Segments == [addr : Addrs, data : SeqsUpTo(ByteVals, MaxLen)]

\* entry; let addr = segment.addr; the encoder run to `compressed`
CallWriteSegment ==
    /\ Enter("write_segment", "flash_write_size")
    /\ segment' \in Segments
    /\ has_cb' \in BOOLEAN
    /\ seg_len' = DataLen(segment'.data)
    /\ compressed' = Encode(segment'.data, codec_truncates)
    /\ flash_write_size' = 0
    /\ block_count' = 0
    /\ erase_size' = Wide(0)
    /\ rest' = <<>>
    /\ num_chunks' = 0
    /\ decoder' = DecoderNew
    /\ decoded_size' = 0
    /\ i' = 0
    /\ j' = 0
    /\ reboot' = FALSE
    /\ UNCHANGED <<fields, codec_truncates>>

\* target.flash_write_size(connection)?; block_count, erase_count, erase_size
FlashWriteSize ==
    /\ pc = "flash_write_size"
    /\ \E r \in Results, fws \in 1..MaxWrite :
         /\ trace' = Append(trace, FwsQuery(r, IF IsErr(r) THEN 0 ELSE fws))
         /\ IF IsErr(r)
              THEN /\ Return(r)
                   /\ UNCHANGED <<flash_write_size, block_count, erase_size>>
              ELSE /\ flash_write_size' = fws
                   /\ block_count' = BlockCount(Len(compressed), fws)
                   /\ erase_size' = EraseSize(seg_len)
                   /\ pc' = "deflate_begin"
                   /\ UNCHANGED result
    /\ UNCHANGED <<fields, codec_truncates, prev_ok, op, ncalls, j, reboot,
                   segment, has_cb, seg_len, compressed, rest, num_chunks,
                   decoder, decoded_size, i>>

\* the FlashDeflateBegin command; then chunks, num_chunks, decoder,
\* decoded_size
FlashDeflateBegin ==
    /\ pc = "deflate_begin"
    /\ \E r \in Results :
         /\ trace' = Append(trace,
                Cmd("FlashDeflateBegin",
                    [size |-> AsU32(seg_len),
                     blocks |-> block_count,
                     block_size |-> flash_write_size,
                     offset |-> segment.addr,
                     supports_encryption |-> SupportsEncryption(chip, use_stub)],
                    TRUE, TRUE, erase_size, r))
         /\ IF IsErr(r)
              THEN /\ Return(r)
                   /\ UNCHANGED <<rest, num_chunks, decoder, decoded_size, i>>
              ELSE /\ rest' = compressed
                   /\ num_chunks' = ChunksLen(compressed, flash_write_size)
                   /\ decoder' = DecoderNew
                   /\ decoded_size' = 0
                   /\ i' = 0
                   /\ pc' = "chunks"
                   /\ UNCHANGED result
    /\ UNCHANGED <<fields, codec_truncates, prev_ok, op, ncalls, j, reboot, segment,
                   has_cb, seg_len, compressed, flash_write_size, block_count,
                   erase_size>>

\* one iteration of `for (i, block) in chunks.enumerate()`
WriteChunk ==
    /\ pc = "chunks"
    /\ rest # <<>>
    /\ LET block == ChunksNext(rest, flash_write_size)
           fed   == DecoderWrite(decoder, block)
           size  == Contribution(Len(fed.out), decoded_size)
       IN  /\ rest' = ChunksRest(rest, flash_write_size)
           /\ decoder' = fed
           /\ IF fed.err
                THEN \* decoder.write_all(block)? / decoder.flush()?
                     /\ Return("Io")
                     /\ UNCHANGED <<trace, decoded_size, i>>
                ELSE /\ decoded_size' = Len(fed.out)
                     /\ \E r \in Results :
                          LET sent == Append(trace,
                                  Cmd("FlashDeflateData",
                                      [sequence |-> Sequence(i), pad_to |-> 0,
                                       pad_byte |-> 255, data |-> block],
                                      TRUE, TRUE, Wide(size), r))
                          IN  IF IsErr(r)
                                THEN /\ trace' = sent
                                     /\ Return(r)
                                     /\ UNCHANGED i
                                ELSE /\ trace' =
                                          IF has_cb
                                            THEN Append(sent,
                                                   CbEv(ProgressArgs(i, num_chunks)))
                                            ELSE sent
                                     /\ i' = i + 1
                                     /\ UNCHANGED <<pc, result>>
    /\ UNCHANGED <<fields, codec_truncates, prev_ok, op, ncalls, j, reboot, segment,
                   has_cb, seg_len, compressed, flash_write_size, block_count,
                   erase_size, num_chunks>>

\* the chunks iterator is exhausted: Ok(())
WriteSegmentReturn ==
    /\ pc = "chunks"
    /\ rest = <<>>
    /\ Return("ok")
    /\ UNCHANGED <<fields, codec_truncates, prev_ok, op, ncalls, trace, j, reboot,
                   ws_locals, seg_len>>

(* ------------------------------ the system ----------------------------- *)
Next ==
    \/ CallBegin \/ SpiAttach \/ GetUsbPid \/ WriteReg
    \/ CallWriteSegment \/ FlashWriteSize \/ FlashDeflateBegin
    \/ WriteChunk \/ WriteSegmentReturn
    \/ CallFinish \/ FlashDeflateEnd \/ Reset

Spec == Init /\ [][Next]_vars

\* the same, with the steps of a write_segment call in progress always taken:
\* the call is straight-line code on one thread and every Connection call
\* it makes returns
SpecLive ==
    /\ Init /\ [][Next]_vars
    /\ WF_vars(FlashWriteSize)
    /\ WF_vars(FlashDeflateBegin)
    /\ WF_vars(WriteChunk)
    /\ WF_vars(WriteSegmentReturn)

\* the same driver with an encoder that may return an unfinished stream
InitCodecFault == New /\ pc = "idle" /\ seg_len = Wide(0) /\ codec_truncates \in BOOLEAN

SpecCodecFault == InitCodecFault /\ [][Next]_vars

(* ------------- the erase-size computation on large lengths ------------- *)
\* segment lengths around 0 and around 2^32
EraseLens ==
    [hi : (0..EraseSpan) \cup ((U32Sectors - EraseSpan)..(U32Sectors + EraseSpan)),
     lo : {0, 1, FLASH_SECTOR_SIZE - 1}]

InitErase == New /\ pc = "erase" /\ seg_len \in EraseLens /\ codec_truncates = FALSE

\* erase_count and erase_size of write_segment, for a segment of seg_len bytes
ComputeEraseSize ==
    /\ pc = "erase"
    /\ erase_size' = EraseSize(seg_len)
    /\ pc' = "erase_done"
    /\ UNCHANGED <<fields, codec_truncates, prev_ok, op, result, ncalls, trace, j,
                   reboot, segment, has_cb, seg_len, compressed,
                   flash_write_size, block_count, rest, num_chunks, decoder,
                   decoded_size, i>>

NextErase == ComputeEraseSize

SpecErase == InitErase /\ [][NextErase]_vars

(* ======================= properties of the driver ====================== *)
\* the events of the call in progress or last returned, by kind
CmdsNamed(n) == SelectSeq(trace, LAMBDA e : e.kind = "cmd" /\ e.name = n)
DataCmds == CmdsNamed("FlashDeflateData")
Callbacks == SelectSeq(trace, LAMBDA e : e.kind = "cb")

\* the call of operation o has returned
Returned(o) == pc = "idle" /\ op = o /\ result # "none"

\* ceil(a / b) for b >= 1, by its defining property
CeilDiv(a, b) == CHOOSE n \in 0..a : n * b >= a /\ (n = 0 \/ (n - 1) * b < a)

(* C1: the FlashDeflateData commands of a write_segment call carry the     *)
(* sequence indices 0, 1, 2, ... in sending order, with no gap and no      *)
(* repeat; when the call returns success they are exactly                  *)
(* 0..blocks-1 for the `blocks` value its FlashDeflateBegin announced.     *)
C1_SequenceIndices ==
    op = "write_segment" =>
        /\ \A k \in 1..Len(DataCmds) : DataCmds[k].args.sequence = k - 1
        /\ (Returned("write_segment") /\ result = "ok") =>
               /\ Len(CmdsNamed("FlashDeflateBegin")) = 1
               /\ Len(DataCmds) = CmdsNamed("FlashDeflateBegin")[1].args.blocks

C1_Witness ==
    /\ Returned("write_segment") /\ result = "ok"
    /\ Len(DataCmds) >= 4
    /\ DataCmds[4].args.sequence = 3

(* C2: when the FlashDeflateData command for chunk k fails, write_segment  *)
(* returns that error kind at once: the failed command is the last event   *)
(* of the call, so no index above k is sent and index k is not sent again. *)
C2_ChunkFailureAborts ==
    op = "write_segment" =>
        \A p \in 1..Len(trace) :
            (trace[p].kind = "cmd" /\ trace[p].name = "FlashDeflateData"
                /\ trace[p].res # "ok") =>
                /\ p = Len(trace)
                /\ Returned("write_segment")
                /\ result = trace[p].res
                /\ \A q \in 1..(p - 1) :
                       (trace[q].kind = "cmd" /\ trace[q].name = "FlashDeflateData")
                           => trace[q].args.sequence < trace[p].args.sequence

\* a timeout on chunk 2 of 5
C2_Witness ==
    /\ Returned("write_segment") /\ result = "Timeout"
    /\ block_count = 5
    /\ Len(DataCmds) = 3
    /\ DataCmds[3].args.sequence = 2
    /\ DataCmds[3].res = "Timeout"

(* C3: with a progress callback, the callback is invoked with (1,N),       *)
(* (2,N), ... in that order, N being the number of chunks; each invocation *)
(* (k,N) directly follows the successful FlashDeflateData command of index *)
(* k-1; a successful call has made exactly N invocations, and a call whose *)
(* chunk k failed exactly k.                                               *)
C3_ProgressOrder ==
    op = "write_segment" =>
        LET N == CeilDiv(Len(compressed), flash_write_size)
        IN  /\ ~has_cb => Callbacks = <<>>
            /\ \A k \in 1..Len(Callbacks) : Callbacks[k].args = <<k, N>>
            /\ \A p \in 1..Len(trace) :
                   trace[p].kind = "cb" =>
                       /\ p > 1
                       /\ trace[p - 1].kind = "cmd"
                       /\ trace[p - 1].name = "FlashDeflateData"
                       /\ trace[p - 1].res = "ok"
                       /\ trace[p - 1].args.sequence + 1 = trace[p].args[1]
            /\ (has_cb /\ Returned("write_segment") /\ result = "ok")
                   => Len(Callbacks) = N
            /\ (has_cb /\ DataCmds # <<>> /\ DataCmds[Len(DataCmds)].res # "ok")
                   => Len(Callbacks) = DataCmds[Len(DataCmds)].args.sequence

C3_Witness ==
    /\ Returned("write_segment") /\ result = "ok"
    /\ has_cb
    /\ Len(Callbacks) = 3
    /\ Callbacks[3].args = <<3, 3>>

(* C4 (as stated): in every finish call the FlashDeflateEnd command        *)
(* carries reboot = false, and the reset primitive is invoked if and only  *)
(* if the caller passed reboot = true.                                     *)
C4_Original ==
    Returned("finish") =>
        /\ Len(CmdsNamed("FlashDeflateEnd")) = 1
        /\ CmdsNamed("FlashDeflateEnd")[1].args.reboot = FALSE
        /\ (\E p \in 1..Len(trace) : trace[p].kind = "reset") <=> reboot

(* C4 (amended): in every finish call the FlashDeflateEnd command carries  *)
(* reboot = false whatever the caller's reboot argument, and the reset     *)
(* primitive is invoked if and only if the caller passed reboot = true and *)
(* the FlashDeflateEnd command returned success.                           *)
C4_FinishWireFlagAndReset ==
    Returned("finish") =>
        /\ Len(CmdsNamed("FlashDeflateEnd")) = 1
        /\ CmdsNamed("FlashDeflateEnd")[1].args.reboot = FALSE
        /\ (\E p \in 1..Len(trace) : trace[p].kind = "reset")
               <=> (reboot /\ CmdsNamed("FlashDeflateEnd")[1].res = "ok")

C4_Witness ==
    /\ Returned("finish") /\ result = "ok"
    /\ reboot
    /\ CmdsNamed("FlashDeflateEnd")[1].args.reboot = FALSE
    /\ trace[Len(trace)].kind = "reset"

(* C5: in finish the reset primitive is invoked only directly after a      *)
(* FlashDeflateEnd command that returned success; when FlashDeflateEnd     *)
(* fails, finish returns that error and reset is never invoked, even with  *)
(* reboot = true.                                                          *)
C5_ResetOnlyAfterEndSucceeded ==
    op = "finish" =>
        /\ \A p \in 1..Len(trace) :
               trace[p].kind = "reset" =>
                   /\ p = 2
                   /\ trace[1].kind = "cmd"
                   /\ trace[1].name = "FlashDeflateEnd"
                   /\ trace[1].res = "ok"
        /\ (trace # <<>> /\ trace[1].res # "ok") =>
               /\ Returned("finish")
               /\ result = trace[1].res
               /\ Len(trace) = 1

C5_Witness ==
    /\ Returned("finish") /\ result = "Timeout"
    /\ reboot
    /\ Len(trace) = 1
    /\ trace[1].name = "FlashDeflateEnd"
    /\ trace[1].res = "Timeout"

(* C6: a begin call that emits the watchdog sequence and succeeds has sent *)
(* exactly three WriteReg commands: the unlock key to the write-protect    *)
(* register, zero to the watchdog-enable register (another register), and  *)
(* zero to the write-protect register again, in that order; on a chip      *)
(* other than Esp32c3 and Esp32s3 begin sends no WriteReg command.         *)
C6_WatchdogSequence ==
    op = "begin" =>
        LET w == CmdsNamed("WriteReg")
        IN  /\ chip \notin {"Esp32c3", "Esp32s3"} => w = <<>>
            /\ (Returned("begin") /\ result = "ok" /\ w # <<>>) =>
                   /\ Len(w) = 3
                   /\ w[1].args.value = WDT_WKEY
                   /\ w[2].args.value = 0
                   /\ w[2].args.address # w[1].args.address
                   /\ w[3].args.value = 0
                   /\ w[3].args.address = w[1].args.address

C6_Witness ==
    /\ Returned("begin") /\ result = "ok"
    /\ chip = "Esp32s3"
    /\ Len(CmdsNamed("WriteReg")) = 3
    /\ CmdsNamed("WriteReg")[1].args.value = WDT_WKEY

(* C7: the erase_size write_segment computes, as a 32-bit unsigned value,  *)
(* is a multiple of FLASH_SECTOR_SIZE and at least len(segment.data), for  *)
(* every length, those whose sector-rounded size exceeds 32 bits included. *)
C7_EraseSizeCoversSegment ==
    pc = "erase_done" =>
        /\ erase_size.lo = 0
        /\ WideGeq(erase_size, seg_len)

(* C8: block_count is ceil(len(compressed) / flash_write_size); the chunks *)
(* sent are consecutive slices of the compressed stream in order, which    *)
(* on success concatenate to the whole stream; every chunk but the last    *)
(* has length flash_write_size and the last has length between 1 and       *)
(* flash_write_size.                                                       *)
C8_Chunking ==
    (op = "write_segment" /\ flash_write_size >= 1) =>
        LET sent == [k \in 1..Len(DataCmds) |-> DataCmds[k].args.data]
            N    == CeilDiv(Len(compressed), flash_write_size)
        IN  /\ block_count = N
            /\ Len(sent) <= N
            /\ Concat(sent) = SubSeq(compressed, 1, Len(Concat(sent)))
            /\ \A k \in 1..Len(sent) :
                   /\ k < N => Len(sent[k]) = flash_write_size
                   /\ k = N => Len(sent[k]) \in 1..flash_write_size
            /\ (Returned("write_segment") /\ result = "ok") =>
                   /\ Len(sent) = N
                   /\ Concat(sent) = compressed

\* a last chunk shorter than the ones before it
C8_Witness ==
    /\ Returned("write_segment") /\ result = "ok"
    /\ flash_write_size = 3
    /\ Len(DataCmds) = 3
    /\ Len(DataCmds[3].args.data) = 1

(* C9: in a write_segment call that returns success, the decompressed      *)
(* contributions of the chunks (the sizes the FlashDeflateData timeouts    *)
(* are computed from) add up to len(segment.data); a stream that fits one  *)
(* chunk contributes all of it in that chunk.                              *)
C9_ContributionsSumToLength ==
    (Returned("write_segment") /\ result = "ok") =>
        LET contrib == [k \in 1..Len(DataCmds) |-> DataCmds[k].tsize.lo]
        IN  /\ \A k \in 1..Len(DataCmds) : DataCmds[k].tsize.hi = 0
            /\ SumSeq(contrib) = Len(segment.data)
            /\ Len(DataCmds) = 1 => contrib[1] = Len(segment.data)

\* three bytes of data arriving over several chunks, two of which contribute
C9_Witness ==
    /\ Returned("write_segment") /\ result = "ok"
    /\ Len(segment.data) = 3
    /\ Len(DataCmds) >= 3
    /\ Cardinality({k \in 1..Len(DataCmds) : DataCmds[k].tsize.lo > 0}) >= 2

C11_EncryptionFlag ==
    \A p \in 1..Len(trace) :
        (trace[p].kind = "cmd" /\ trace[p].name = "FlashDeflateBegin") =>
            /\ trace[p].args.supports_encryption
                   <=> (chip \in {"Esp32c3", "Esp32s2", "Esp32s3"} /\ use_stub = FALSE)
            /\ use_stub => trace[p].args.supports_encryption = FALSE

C11_Witness ==
    /\ op = "write_segment"
    /\ chip = "Esp32s3"
    /\ ~use_stub
    /\ CmdsNamed("FlashDeflateBegin") # <<>>
    /\ CmdsNamed("FlashDeflateBegin")[1].args.supports_encryption

(* C12: the first command of begin is one SPI-attach command, the stub     *)
(* variant exactly when use_stub is true, and begin sends no other; when   *)
(* it fails begin returns its error with nothing more sent; when a         *)
(* WriteReg of the watchdog sequence fails begin returns its error and     *)
(* that WriteReg is the last command sent.                                 *)
C12_BeginAttachAndAbort ==
    (op = "begin" /\ (trace # <<>> \/ Returned("begin"))) =>
        /\ trace # <<>>
        /\ trace[1].kind = "cmd"
        /\ trace[1].name = (IF use_stub THEN "SpiAttachStub" ELSE "SpiAttach")
        /\ Len(CmdsNamed("SpiAttach")) + Len(CmdsNamed("SpiAttachStub")) = 1
        /\ trace[1].res # "ok" =>
               /\ Len(trace) = 1
               /\ Returned("begin")
               /\ result = trace[1].res
        /\ \A p \in 1..Len(trace) :
               (trace[p].kind = "cmd" /\ trace[p].name = "WriteReg"
                   /\ trace[p].res # "ok") =>
                   /\ p = Len(trace)
                   /\ Returned("begin")
                   /\ result = trace[p].res

\* the second WriteReg of the sequence fails, on the stub loader
C12_Witness ==
    /\ Returned("begin") /\ result = "Connection"
    /\ use_stub
    /\ trace[1].name = "SpiAttachStub"
    /\ Len(CmdsNamed("WriteReg")) = 2
    /\ CmdsNamed("WriteReg")[2].res = "Connection"

(* C13 (as stated): every wire command issued by begin, write_segment and  *)
(* finish is executed inside a with_timeout scope of the connection.       *)
C13_Original ==
    \A p \in 1..Len(trace) : trace[p].kind = "cmd" => trace[p].scoped

(* C13 (amended): every SPI-attach, FlashDeflateBegin, FlashDeflateData    *)
(* and FlashDeflateEnd command is executed inside a with_timeout scope of  *)
(* the connection; the WriteReg commands of begin are issued by            *)
(* connection.command directly, outside any with_timeout scope.            *)
C13_TimeoutScopes ==
    \A p \in 1..Len(trace) :
        trace[p].kind = "cmd" =>
            /\ trace[p].name \in {"SpiAttach", "SpiAttachStub", "FlashDeflateBegin",
                                  "FlashDeflateData", "FlashDeflateEnd", "WriteReg"}
            /\ trace[p].scoped <=> trace[p].name # "WriteReg"

C13_Witness ==
    /\ Returned("begin") /\ result = "ok"
    /\ Len(CmdsNamed("WriteReg")) = 3
    /\ trace[1].name = "SpiAttach" /\ trace[1].scoped
    /\ \A k \in 1..3 : ~CmdsNamed("WriteReg")[k].scoped

(* C14: a write_segment call sends exactly one FlashDeflateBegin command,  *)
(* before every FlashDeflateData command; a command is sent only after all *)
(* commands before it returned success; when FlashDeflateBegin fails the   *)
(* call returns its error with no FlashDeflateData sent and no progress    *)
(* callback made.                                                          *)
C14_BeginThenData ==
    op = "write_segment" =>
        LET c == SelectSeq(trace, LAMBDA e : e.kind = "cmd")
        IN  /\ Len(CmdsNamed("FlashDeflateBegin")) <= 1
            /\ c # <<>> => c[1].name = "FlashDeflateBegin"
            /\ (Returned("write_segment") /\ result = "ok")
                   => Len(CmdsNamed("FlashDeflateBegin")) = 1
            /\ \A k \in 2..Len(c) :
                   /\ c[k].name = "FlashDeflateData"
                   /\ c[k - 1].res = "ok"
            /\ (c # <<>> /\ c[1].res # "ok") =>
                   /\ Returned("write_segment")
                   /\ result = c[1].res
                   /\ DataCmds = <<>>
                   /\ Callbacks = <<>>
                   /\ trace[Len(trace)] = c[1]

C14_Witness ==
    /\ Returned("write_segment") /\ result = "Timeout"
    /\ has_cb
    /\ Len(trace) = 2
    /\ trace[2].name = "FlashDeflateBegin"
    /\ trace[2].res = "Timeout"

(* C15: the driver checks no session order.  Whatever calls were made      *)
(* before it, in whatever order, a call starts with its usual first        *)
(* Connection call (begin: the SPI-attach command, write_segment: the      *)
(* flash_write_size query and then FlashDeflateBegin, finish:              *)
(* FlashDeflateEnd), and when it fails its error is the error of the       *)
(* Connection call it made last, never a session-state error of its own;   *)
(* so FlashDeflateBegin is sent on a driver that never sent an SPI-attach. *)
C15_NoSessionCheck ==
    op # "none" =>
        /\ Returned(op) => trace # <<>>
        /\ trace # <<>> =>
               CASE op = "begin" ->
                      trace[1].kind = "cmd"
                          /\ trace[1].name \in {"SpiAttach", "SpiAttachStub"}
                 [] op = "write_segment" ->
                      /\ trace[1].kind = "flash_write_size"
                      /\ (pc \notin {"flash_write_size", "deflate_begin"}
                              /\ trace[1].res = "ok") =>
                             /\ Len(trace) >= 2
                             /\ trace[2].kind = "cmd"
                             /\ trace[2].name = "FlashDeflateBegin"
                 [] op = "finish" ->
                      trace[1].kind = "cmd" /\ trace[1].name = "FlashDeflateEnd"
        /\ (Returned(op) /\ result # "ok") =>
               /\ result \in ErrorKinds
               /\ result = trace[Len(trace)].res
        /\ (Returned(op) /\ result = "ok") =>
               \A p \in 1..Len(trace) : trace[p].res = "ok"

\* write_segment as the first call ever made on the driver
C15_Witness ==
    /\ ncalls = 1
    /\ Returned("write_segment") /\ result = "ok"
    /\ CmdsNamed("FlashDeflateBegin") # <<>>
    /\ CmdsNamed("FlashDeflateBegin")[1].res = "ok"
    /\ CmdsNamed("SpiAttach") = <<>> /\ CmdsNamed("SpiAttachStub") = <<>>

\* what a write_segment call sends, from its inputs alone: the segment, the
\* driver's fields and the flash_write_size answered (fws)
Min(a, b) == IF a < b THEN a ELSE b

\* the output length of a fresh decoder fed the first n bytes of stream c
DecodedLen(c, n) == Len(DecoderWrite(DecoderNew, SubSeq(c, 1, n)).out)

ExpectedBegin(seg, fws) ==
    [args  |-> [size |-> Wide(Len(seg.data)),
                blocks |-> CeilDiv(Len(Compress(seg.data)), fws),
                block_size |-> fws,
                offset |-> seg.addr,
                supports_encryption |-> (chip # "Esp32" /\ ~use_stub)],
     tsize |-> [hi |-> CeilDiv(Len(seg.data), FLASH_SECTOR_SIZE), lo |-> 0]]

ExpectedData(seg, fws, k) ==
    LET c  == Compress(seg.data)
        lo == Min((k - 1) * fws, Len(c))
        hi == Min(k * fws, Len(c))
    IN  [args  |-> [sequence |-> k - 1, pad_to |-> 0, pad_byte |-> 255,
                    data |-> SubSeq(c, lo + 1, hi)],
         tsize |-> Wide(DecodedLen(c, hi) - DecodedLen(c, lo))]

C16_SameCommands ==
    (op = "write_segment" /\ trace # <<>> /\ trace[1].res = "ok") =>
        LET fws == trace[1].args
            b   == CmdsNamed("FlashDeflateBegin")
        IN  /\ \A k \in 1..Len(b) :
                   /\ b[k].args = ExpectedBegin(segment, fws).args
                   /\ b[k].tsize = ExpectedBegin(segment, fws).tsize
            /\ \A k \in 1..Len(DataCmds) :
                   /\ DataCmds[k].args = ExpectedData(segment, fws, k).args
                   /\ DataCmds[k].tsize = ExpectedData(segment, fws, k).tsize

(* C16: a write_segment call is self-contained.  Whatever calls were made  *)
(* on the driver before it, and whether they succeeded, the commands it    *)
(* sends (their fields, the sequence indices from 0, the timeout sizes     *)
(* from a decompressed count of 0) are those determined by the segment,    *)
(* chip, use_stub and flash_write_size alone; and no step of any call      *)
(* changes chip, spi_attach_params or use_stub.                            *)
C16_SelfContained ==
    /\ [] C16_SameCommands
    /\ [][fields' = fields]_vars

\* a second call, made after a call that failed
C16_Witness ==
    /\ ncalls = 2
    /\ ~prev_ok
    /\ Returned("write_segment") /\ result = "ok"
    /\ Len(DataCmds) >= 2
    /\ DataCmds[1].args.sequence = 0

(* C17: the size a FlashDeflateData timeout is computed from is the        *)
(* chunk's decompressed contribution: the cumulative output length of one  *)
(* decompressor fed every chunk sent so far, less its cumulative output    *)
(* length before this chunk.  It is fixed when the command is issued and   *)
(* is not the number of compressed bytes in the chunk.                     *)
C17_TimeoutFromContribution ==
    op = "write_segment" =>
        \A k \in 1..Len(DataCmds) :
            LET upto(n) == Concat([m \in 1..n |-> DataCmds[m].args.data])
                cum(n)  == Len(DecoderWrite(DecoderNew, upto(n)).out)
            IN  /\ DataCmds[k].scoped
                /\ DataCmds[k].sized
                /\ DataCmds[k].tsize = Wide(cum(k) - cum(k - 1))

\* a one-byte chunk that completes a run of three bytes
C17_Witness ==
    /\ op = "write_segment"
    /\ Len(DataCmds) = 3
    /\ Len(DataCmds[3].args.data) = 1
    /\ DataCmds[3].tsize = Wide(3)
    /\ DataCmds[2].tsize = Wide(0)

(* C18: begin sends WriteReg commands if and only if its SPI-attach        *)
(* succeeded, the USB PID query answered USB_SERIAL_JTAG_PID and the chip  *)
(* is Esp32c3 or Esp32s3, with the stub loader and without it; on another  *)
(* link class it sends none, Esp32c3 and Esp32s3 included.                 *)
C18_WatchdogCondition ==
    op = "begin" =>
        LET quirk == /\ Len(trace) >= 2
                     /\ trace[1].kind = "cmd" /\ trace[1].res = "ok"
                     /\ trace[2].kind = "usb_pid" /\ trace[2].res = "ok"
                     /\ trace[2].args = USB_SERIAL_JTAG_PID
                     /\ chip \in {"Esp32c3", "Esp32s3"}
        IN  /\ CmdsNamed("WriteReg") # <<>> => quirk
            /\ (quirk /\ Returned("begin")) => CmdsNamed("WriteReg") # <<>>

\* the sequence sent while the stub loader is in use
C18_Witness ==
    /\ Returned("begin") /\ result = "ok"
    /\ use_stub
    /\ chip = "Esp32c3"
    /\ trace[2].kind = "usb_pid"
    /\ trace[2].args = USB_SERIAL_JTAG_PID
    /\ Len(CmdsNamed("WriteReg")) = 3

(* C19: when the SPI-attach command succeeds and the USB PID query then    *)
(* fails, begin returns the query's error, having sent the SPI-attach and  *)
(* no WriteReg command, on every chip.                                     *)
C19_PidQueryFailure ==
    (op = "begin" /\ Len(trace) >= 2 /\ trace[2].kind = "usb_pid"
        /\ trace[2].res # "ok") =>
        /\ Returned("begin")
        /\ result = trace[2].res
        /\ Len(trace) = 2
        /\ trace[1].kind = "cmd"
        /\ trace[1].name \in {"SpiAttach", "SpiAttachStub"}
        /\ trace[1].res = "ok"
        /\ CmdsNamed("WriteReg") = <<>>

C19_Witness ==
    /\ Returned("begin") /\ result = "Timeout"
    /\ chip = "Esp32s3"
    /\ Len(trace) = 2
    /\ trace[1].res = "ok"
    /\ trace[2].kind = "usb_pid"
    /\ trace[2].res = "Timeout"

\* the events of a write_segment call are within its budget
C20_Budget ==
    op = "write_segment" =>
        /\ Len(SelectSeq(trace, LAMBDA e : e.kind = "cmd")) <= 1 + block_count
        /\ Len(Callbacks) <= block_count
        /\ (Returned("write_segment") /\ result = "ok") =>
               /\ Len(DataCmds) = block_count
               /\ \A k \in 1..block_count : DataCmds[k].res = "ok"

(* C20: provided every Connection call returns, a write_segment call       *)
(* eventually returns; it sends at most 1 + block_count commands and       *)
(* invokes the progress callback at most block_count times, and it returns *)
(* success only after all block_count chunks were sent successfully.       *)
C20_Terminates ==
    /\ [] C20_Budget
    /\ (op = "write_segment" /\ pc # "idle") ~> (pc = "idle")

\* a successful call that used its whole budget
C20_Witness ==
    /\ Returned("write_segment") /\ result = "ok"
    /\ has_cb
    /\ block_count = 5
    /\ Len(SelectSeq(trace, LAMBDA e : e.kind = "cmd")) = 6
    /\ Len(Callbacks) = 5

====
